---- MODULE Spec2Model ----
(***************************************************************************)
(* Model of the tile manager of prof-viewer (src/app/tile_manager.rs), of   *)
(* its artifact-cache helper invalidate_cache, and of the deferred data    *)
(* sources (src/deferred_data.rs, src/http/client.rs).                     *)
(*                                                                         *)
(* Timestamps are integers (nanoseconds).  An Interval is a record         *)
(* [start, stop]; a TileID wraps an Interval and is modelled by the        *)
(* interval itself.  Option<T> is a sequence of length at most one:        *)
(* None is << >> and Some(x) is << x >>.  The two memo slots, which the    *)
(* code stores as pairs indexed by the full flag, are functions on         *)
(* BOOLEAN.                                                                *)
(*                                                                         *)
(* The f64 ratios of the code are modelled as exact fractions num/den.     *)
(* For the magnitudes of the model (well below 2^26) the f64 quotient of   *)
(* two integers compares with 2.0 and with another such quotient exactly   *)
(* as the fractions do.                                                    *)
(***************************************************************************)
EXTENDS Integers, Sequences, FiniteSets, TLC

VARIABLES
    tile_set,               \* TileManager.tile_set: sequence of levels
    interval,               \* TileManager.interval
    last_request_interval,  \* TileManager.last_request_interval, by full
    tile_cache,             \* TileManager.tile_cache, by full
    full,                   \* the full argument of the most recent call
    request_interval,       \* Option: request interval of the most recent call
    result,                 \* the list returned by the most recent call
    path,                   \* the return statement the most recent call took
    returned,               \* by full: Option of the last call's request
                            \* interval and returned list
    aborted,                \* a call panicked or cannot complete
    calls                   \* number of request_tiles calls made

tm_vars == << tile_set, interval, last_request_interval, tile_cache, full,
              request_interval, result, path, returned, aborted, calls >>

VARIABLES
    artifacts,              \* invalidate_cache: the BTreeMap<TileID, T>
    artifacts_before,       \* the map before the most recent invalidate_cache
    valid_ids,              \* Option: tile_ids of the most recent call
    invalidations           \* number of invalidate_cache calls made

ic_vars == << artifacts, artifacts_before, valid_ids, invalidations >>

VARIABLES
    source,                 \* which DeferredDataSource the counter wraps
    infos,                  \* the source's queue of info responses
    summary_tiles,          \* the source's queue of summary tile responses
    slot_tiles,             \* the source's queue of slot tile responses
    slot_meta_tiles,        \* the source's queue of slot meta tile responses
    in_flight,              \* HTTP requests whose callback has not run yet
    outstanding_requests,   \* CountingDeferredDataSource.outstanding_requests
    ds_aborted,             \* the assertion of finish_request failed
    issued,                 \* the fetch_* calls made so far, with arguments
    answered,               \* what the transport handed to each callback
    delivered,              \* the set of responses returned by get_* so far
    responses_returned,     \* the number of responses returned by get_* so far
    spurious_sent           \* the source queued a response nobody requested

queue_vars == << infos, summary_tiles, slot_tiles, slot_meta_tiles >>

ds_vars == << source, queue_vars, in_flight, outstanding_requests, ds_aborted,
              issued, answered, delivered, responses_returned, spurious_sent >>

VARIABLES
    ratio_level,            \* ratio: the tile list it is applied to
    ratio_duration,         \* ratio: request_duration
    ratio_value             \* Option: the value ratio returned

rt_vars == << ratio_level, ratio_duration, ratio_value >>

VARIABLES
    url,                    \* ensure_directory: the URL, then the result
    url_before,             \* the argument of the most recent call
    url_calls               \* number of ensure_directory calls made

ur_vars == << url, url_before, url_calls >>

VARIABLES
    nv_pc,                  \* NVTXW::write: the statement it is at
    entry_ids,              \* write: walk_entry_list(&info.entry_info)
    info_static,            \* the info's tile_set is not empty
    entry_index,            \* write: position of the issue loop in entry_ids
    num_requests,           \* process_events: its num_requests argument
    local_slot_tiles,       \* process_events: the local slot_tiles
    unmatched_tiles,        \* write: the holding map, by entry id
    written                 \* the (tile, meta_tile) pairs handed to
                            \* write_matched_tile, in order

nv_vars == << nv_pc, entry_ids, info_static, entry_index, num_requests,
              local_slot_tiles, unmatched_tiles, written >>

\* The components beside the tile manager, the artifact cache and the
\* deferred data source.
VARIABLES
    view                    \* Option: the view_interval of the most recent
                            \* request_tiles call, where it is recorded,
                            \* and whether the call before had another one

vw_vars == << view >>

VARIABLES
    zero_time,              \* write_matched_tile: zero_time (i64)
    item_interval,          \* the item's interval (two i64 timestamps)
    events,                 \* Option: the event handed to event_write
    write_aborted           \* write_matched_tile panicked

wt_vars == << zero_time, item_interval, events, write_aborted >>

extra_vars == << vw_vars, wt_vars >>

rest_vars == << rt_vars, ur_vars, nv_vars, extra_vars >>

vars == << tm_vars, ic_vars, ds_vars, rest_vars >>

\* ------------------------------------------------------------------ bounds
IStop == 4

ViewMargin == 1

MaxCalls == 4

NumKeys == 3

MaxIds == 2

MaxInvalidations == 2

MaxFetches == 2

RatioMaxTile == 3

RatioMaxRequest == 4

UrlMaxPath == 4

NVRows == 2

BackpressureRows == 51

\* ------------------------------------------------------------ Option, misc
None == << >>

Some(x) == << x >>

Max(a, b) == IF a >= b THEN a ELSE b

Min(a, b) == IF a <= b THEN a ELSE b

\* ------------------------------------------------------- interval algebra
Interval(a, b) == [start |-> a, stop |-> b]

duration_ns(iv) == iv.stop - iv.start

intersection(a, b) == Interval(Max(a.start, b.start), Min(a.stop, b.stop))

union(a, b) == Interval(Min(a.start, b.start), Max(a.stop, b.stop))

contains_interval(a, inner) == a.start <= inner.start /\ inner.stop <= a.stop

overlaps(a, b) == a.start < b.stop /\ b.start < a.stop

translate(iv, delta) == Interval(iv.start + delta, iv.stop + delta)

subtract_after(iv, cut) == Interval(iv.start, Min(iv.stop, cut))

subtract_before(iv, cut) == Interval(Max(iv.start, cut), iv.stop)

\* ------------------------------------------------------------ free helpers
\* Variant of select with the two values exchanged.
select_swapped(cond, true_value, false_value) ==
    IF cond THEN false_value ELSE true_value

select(cond, true_value, false_value) ==
    IF cond THEN true_value ELSE false_value

\* Variant of fill_cache that omits `*last_key = Some(key)`.
fill_cache_keeps_key(cache, values, last_key, key) ==
    [last_key |-> last_key, cache |-> values, ret |-> values]

\* Variant of fill_cache that omits `cache.clear()`.
fill_cache_appends(cache, values, last_key, key) ==
    [last_key |-> Some(key), cache |-> cache \o values,
     ret |-> cache \o values]

\* fill_cache(cache, values, last_key, key): the selected slot after the
\* call (last_key, cache) and the returned clone (ret).
fill_cache(cache, values, last_key, key) ==
    [last_key |-> Some(key), cache |-> values, ret |-> values]

\* Variant of reuse_cache that omits `*last_key = Some(key)`.
reuse_cache_keeps_key(cache, last_key, key) ==
    [last_key |-> last_key, cache |-> cache, ret |-> cache]

\* reuse_cache(cache, last_key, key): the cache is kept and returned.
reuse_cache(cache, last_key, key) ==
    [last_key |-> Some(key), cache |-> cache, ret |-> cache]

\* Variant of probe that looks at the first tile only.
probe_first(level) == duration_ns(level[1])

\* ------------------------------------------------------------------- ratio
\* d of the ratio closure: the larger duration of the first two tiles.
probe(level) ==
    LET first == duration_ns(level[1])
    IN  IF Len(level) >= 2 THEN Max(first, duration_ns(level[2])) ELSE first

\* The ratio closure, as the fraction num/den (den = 0 is +infinity).
ratio(level, request_duration) ==
    LET d == probe(level)
    IN  IF d < request_duration
        THEN [num |-> request_duration, den |-> d]
        ELSE [num |-> d, den |-> request_duration]

\* 0.0 / 0.0
is_nan(r) == r.num = 0 /\ r.den = 0

\* The fraction with a positive denominator (den # 0).
Normal(r) == IF r.den < 0 THEN [num |-> 0 - r.num, den |-> 0 - r.den] ELSE r

\* Variant of ratio_le_2 with the threshold 3.0.
ratio_le_3(r) ==
    IF r.den = 0 THEN FALSE
    ELSE Normal(r).num <= 3 * Normal(r).den

\* Variant of ratio_le_2 that excludes the bound itself.
ratio_lt_2(r) ==
    IF r.den = 0 THEN FALSE
    ELSE Normal(r).num < 2 * Normal(r).den

\* ratio <= 2.0
ratio_le_2(r) ==
    IF r.den = 0 THEN FALSE
    ELSE Normal(r).num <= 2 * Normal(r).den

\* Variant of ratio_greater that also holds for equal ratios (the last
\* minimum would win).
ratio_greater_or_equal(r1, r2) ==
    IF r1.den = 0 THEN TRUE
    ELSE IF r2.den = 0 THEN FALSE
    ELSE Normal(r1).num * Normal(r2).den >= Normal(r2).num * Normal(r1).den

\* ratio(level1) > ratio(level2), the Ordering::Greater of partial_cmp
ratio_greater(r1, r2) ==
    IF r2.den = 0 THEN FALSE
    ELSE IF r1.den = 0 THEN TRUE
    ELSE Normal(r1).num * Normal(r2).den > Normal(r2).num * Normal(r1).den

\* Iterator::min_by over the levels: the first minimum is kept, a later
\* level replaces the current one only when the current one is Greater.
RECURSIVE min_by_from(_, _, _, _)
min_by_from(levels, best, i, request_duration) ==
    IF i > Len(levels) THEN best
    ELSE min_by_from(levels,
                     IF ratio_greater(ratio(levels[best], request_duration),
                                      ratio(levels[i], request_duration))
                     THEN i ELSE best,
                     i + 1, request_duration)

min_by(levels, request_duration) == min_by_from(levels, 1, 2, request_duration)

\* Variant of ceil_div that truncates the quotient instead of taking ceil().
ceil_div_truncates(a, b) ==
    IF b > 0
    THEN (IF a >= 0 THEN a \div b ELSE 0 - ((0 - a) \div b))
    ELSE (IF a >= 0 THEN 0 - (a \div (0 - b)) ELSE (0 - a) \div (0 - b))

\* (a as f64 / b as f64).ceil() as i64, for b # 0
ceil_div(a, b) ==
    IF b > 0 THEN 0 - ((0 - a) \div b) ELSE 0 - (a \div (0 - b))

\* The cast saturates: +infinity (b = 0 < a) becomes i64::MAX.
count_saturates(a, b) == b = 0 /\ a > 0

\* The loop count: NaN (0/0) casts to 0, -infinity to i64::MIN (no
\* iteration, as for every count <= 0).
count_of(a, b) == IF b = 0 THEN 0 ELSE ceil_div(a, b)

\* tile_cache.iter().copied().reduce(|a, b| TileID(a.0.union(b.0)))
RECURSIVE reduce_union(_, _, _)
reduce_union(cache, acc, i) ==
    IF i > Len(cache) THEN acc
    ELSE reduce_union(cache, union(acc, cache[i]), i + 1)

cache_interval(cache) ==
    IF Len(cache) = 0 THEN None ELSE Some(reduce_union(cache, cache[1], 2))

\* Variant of filter_overlaps that keeps tiles merely touching the request.
RECURSIVE filter_overlaps_closed(_, _)
filter_overlaps_closed(level, req) ==
    IF Len(level) = 0 THEN << >>
    ELSE (IF req.start <= Head(level).stop /\ Head(level).start <= req.stop
          THEN << Head(level) >> ELSE << >>)
         \o filter_overlaps_closed(Tail(level), req)

\* chosen_level.iter().filter(|tile| request_interval.overlaps(tile.0))
RECURSIVE filter_overlaps(_, _)
filter_overlaps(level, req) ==
    IF Len(level) = 0 THEN << >>
    ELSE (IF overlaps(req, Head(level)) THEN << Head(level) >> ELSE << >>)
         \o filter_overlaps(Tail(level), req)

\* Variant of extend_cache that omits `.intersection(self.interval)`.
extend_cache_unclipped(cache, env, req, row) ==
    LET tile_size == duration_ns(cache[1])
        count_before ==
            count_of(duration_ns(subtract_after(req, env.start)), tile_size)
        count_after ==
            count_of(duration_ns(subtract_before(req, env.stop)), tile_size)
    IN  [i \in 1..count_before |->
            translate(cache[1], ((i - 1) - count_before) * tile_size)]
        \o cache
        \o [i \in 1..count_after |->
               translate(cache[Len(cache)], i * tile_size)]

\* Variant of extend_cache whose tiles to the right start at the last tile
\* itself (translate(i * tile_size)).
extend_cache_repeats_last(cache, env, req, row) ==
    LET tile_size == duration_ns(cache[1])
        count_before ==
            count_of(duration_ns(subtract_after(req, env.start)), tile_size)
        count_after ==
            count_of(duration_ns(subtract_before(req, env.stop)), tile_size)
    IN  [i \in 1..count_before |->
            intersection(translate(cache[1],
                                   ((i - 1) - count_before) * tile_size), row)]
        \o cache
        \o [i \in 1..count_after |->
               intersection(translate(cache[Len(cache)], (i - 1) * tile_size),
                            row)]

\* Variant of extend_cache that always adds one tile on each side.
extend_cache_both_sides(cache, env, req, row) ==
    LET tile_size == duration_ns(cache[1])
        count_before ==
            Max(1, count_of(duration_ns(subtract_after(req, env.start)),
                            tile_size))
        count_after ==
            Max(1, count_of(duration_ns(subtract_before(req, env.stop)),
                            tile_size))
    IN  [i \in 1..count_before |->
            intersection(translate(cache[1],
                                   ((i - 1) - count_before) * tile_size), row)]
        \o cache
        \o [i \in 1..count_after |->
               intersection(translate(cache[Len(cache)], i * tile_size), row)]

\* The new tile list of the partial-overlap branch.
extend_cache(cache, env, req, row) ==
    LET new_before == subtract_after(req, env.start)
        new_after == subtract_before(req, env.stop)
        tile_size == duration_ns(cache[1])
        count_before == count_of(duration_ns(new_before), tile_size)
        first_tile == cache[1]
        count_after == count_of(duration_ns(new_after), tile_size)
        last_tile == cache[Len(cache)]
        left == [i \in 1..count_before |->
                    intersection(
                        translate(first_tile,
                                  ((i - 1) - count_before) * tile_size),
                        row)]
        right == [i \in 1..count_after |->
                    intersection(translate(last_tile, i * tile_size), row)]
    IN  left \o cache \o right

extend_saturates(cache, env, req) ==
    \/ count_saturates(duration_ns(subtract_after(req, env.start)),
                       duration_ns(cache[1]))
    \/ count_saturates(duration_ns(subtract_before(req, env.stop)),
                       duration_ns(cache[1]))

\* ----------------------------------------------------------- request_tiles
Outcome(slot, p, abort) ==
    [last_key |-> slot.last_key, cache |-> slot.cache, ret |-> slot.ret,
     path |-> p, abort |-> abort]

Panic(lri, cache) ==
    [last_key |-> lri, cache |-> cache, ret |-> << >>,
     path |-> "abort", abort |-> TRUE]

\* Variant of dynamic_profile that extends the cache also when the request
\* only touches the cache envelope.
dynamic_profile_touching(row, lri, cache, req) ==
    LET request_duration == duration_ns(req)
        env == cache_interval(cache)
    IN  IF env # None /\ ratio_le_2(ratio(cache, request_duration))
            /\ contains_interval(env[1], req)
        THEN Outcome(reuse_cache(cache, lri, req), "reuse", FALSE)
        ELSE IF env # None /\ ratio_le_2(ratio(cache, request_duration))
                /\ env[1].start <= req.stop /\ req.start <= env[1].stop
        THEN IF extend_saturates(cache, env[1], req)
             THEN Panic(lri, cache)
             ELSE Outcome(fill_cache(cache,
                                     extend_cache(cache, env[1], req, row),
                                     lri, req),
                          "extend", FALSE)
        ELSE Outcome(fill_cache(cache, << req >>, lri, req), "fresh", FALSE)

\* The dynamic-profile block of request_tiles.
dynamic_profile(row, lri, cache, req) ==
    LET request_duration == duration_ns(req)
        env == cache_interval(cache)
    IN  IF env # None /\ ratio_le_2(ratio(cache, request_duration))
            /\ contains_interval(env[1], req)
        THEN Outcome(reuse_cache(cache, lri, req), "reuse", FALSE)
        ELSE IF env # None /\ ratio_le_2(ratio(cache, request_duration))
                /\ overlaps(env[1], req)
        THEN IF extend_saturates(cache, env[1], req)
             THEN Panic(lri, cache)
             ELSE Outcome(fill_cache(cache,
                                     extend_cache(cache, env[1], req, row),
                                     lri, req),
                          "extend", FALSE)
        ELSE Outcome(fill_cache(cache, << req >>, lri, req), "fresh", FALSE)

\* Variant of static_profile that keeps a non-empty cache instead of
\* filtering the chosen level again.
static_profile_keeps_cache(ts, lri, cache, req, f) ==
    LET request_duration == duration_ns(req)
    IN  IF Len(ts) = 0
        THEN Panic(lri, cache)
        ELSE IF ~f /\ Len(ts) >= 2 /\ \E i \in 1..Len(ts) : Len(ts[i]) = 0
        THEN Panic(lri, cache)
        ELSE IF ~f /\ \E i, j \in 1..Len(ts) :
                       i # j /\ is_nan(ratio(ts[i], request_duration))
        THEN Panic(lri, cache)
        ELSE LET chosen_level ==
                     IF f THEN ts[Len(ts)]
                     ELSE ts[min_by(ts, request_duration)]
             IN  Outcome(fill_cache(cache,
                                    IF Len(cache) > 0 THEN cache
                                    ELSE filter_overlaps(chosen_level, req),
                                    lri, req),
                         "static", FALSE)

\* The static-profile block of request_tiles.
static_profile(ts, lri, cache, req, f) ==
    LET request_duration == duration_ns(req)
    IN  IF Len(ts) = 0
        THEN Panic(lri, cache)  \* tiles.last().unwrap(), min_by(..).unwrap()
        ELSE IF ~f /\ Len(ts) >= 2 /\ \E i \in 1..Len(ts) : Len(ts[i]) = 0
        THEN Panic(lri, cache)  \* it.next().unwrap() in ratio
        ELSE IF ~f /\ \E i, j \in 1..Len(ts) :
                       i # j /\ is_nan(ratio(ts[i], request_duration))
        THEN Panic(lri, cache)  \* partial_cmp(..).unwrap() on a NaN
        ELSE LET chosen_level ==
                     IF f THEN ts[Len(ts)]
                     ELSE ts[min_by(ts, request_duration)]
             IN  Outcome(fill_cache(cache, filter_overlaps(chosen_level, req),
                                    lri, req),
                         "static", FALSE)

\* Variant of request_tiles_slot whose empty-request test is `< 0`.
request_tiles_slot_strict(ts, row, lri, cache, view_interval, f) ==
    LET req == intersection(view_interval, row)
    IN  IF lri = Some(req)
        THEN [last_key |-> lri, cache |-> cache, ret |-> cache,
              path |-> "memo", abort |-> FALSE]
        ELSE IF duration_ns(req) < 0
        THEN Outcome(fill_cache(cache, << >>, lri, req), "empty", FALSE)
        ELSE IF Len(ts) = 0
        THEN dynamic_profile(row, lri, cache, req)
        ELSE static_profile(ts, lri, cache, req, f)

\* Variant of request_tiles_slot with the test `tiles.is_empty()` negated.
request_tiles_slot_inverted(ts, row, lri, cache, view_interval, f) ==
    LET req == intersection(view_interval, row)
    IN  IF lri = Some(req)
        THEN [last_key |-> lri, cache |-> cache, ret |-> cache,
              path |-> "memo", abort |-> FALSE]
        ELSE IF duration_ns(req) <= 0
        THEN Outcome(fill_cache(cache, << >>, lri, req), "empty", FALSE)
        ELSE IF Len(ts) # 0
        THEN dynamic_profile(row, lri, cache, req)
        ELSE static_profile(ts, lri, cache, req, f)

\* Variant of request_tiles_slot that forgets the memo on an empty request.
request_tiles_slot_forgets(ts, row, lri, cache, view_interval, f) ==
    LET req == intersection(view_interval, row)
    IN  IF lri = Some(req)
        THEN [last_key |-> lri, cache |-> cache, ret |-> cache,
              path |-> "memo", abort |-> FALSE]
        ELSE IF duration_ns(req) <= 0
        THEN [last_key |-> None, cache |-> << >>, ret |-> << >>,
              path |-> "empty", abort |-> FALSE]
        ELSE IF Len(ts) = 0
        THEN dynamic_profile(row, lri, cache, req)
        ELSE static_profile(ts, lri, cache, req, f)

\* Variant of request_tiles_slot whose memo is keyed on the view.
request_tiles_slot_by_view(ts, row, lri, cache, view_interval, f) ==
    LET req == intersection(view_interval, row)
        out == IF lri = Some(view_interval)
               THEN [last_key |-> lri, cache |-> cache, ret |-> cache,
                     path |-> "memo", abort |-> FALSE]
               ELSE IF duration_ns(req) <= 0
               THEN Outcome(fill_cache(cache, << >>, lri, req), "empty", FALSE)
               ELSE IF Len(ts) = 0
               THEN dynamic_profile(row, lri, cache, req)
               ELSE static_profile(ts, lri, cache, req, f)
    IN  IF out.abort THEN out ELSE [out EXCEPT !.last_key = Some(view_interval)]

\* Variant of request_tiles_slot whose empty request keeps the cache.
request_tiles_slot_keeps_cache(ts, row, lri, cache, view_interval, f) ==
    LET req == intersection(view_interval, row)
    IN  IF lri = Some(req)
        THEN [last_key |-> lri, cache |-> cache, ret |-> cache,
              path |-> "memo", abort |-> FALSE]
        ELSE IF duration_ns(req) <= 0
        THEN [last_key |-> Some(req), cache |-> cache, ret |-> << >>,
              path |-> "empty", abort |-> FALSE]
        ELSE IF Len(ts) = 0
        THEN dynamic_profile(row, lri, cache, req)
        ELSE static_profile(ts, lri, cache, req, f)

\* request_tiles on the slot (lri, cache) selected by f.
request_tiles_slot(ts, row, lri, cache, view_interval, f) ==
    LET req == intersection(view_interval, row)
    IN  IF lri = Some(req)
        THEN [last_key |-> lri, cache |-> cache, ret |-> cache,
              path |-> "memo", abort |-> FALSE]
        ELSE IF duration_ns(req) <= 0
        THEN Outcome(fill_cache(cache, << >>, lri, req), "empty", FALSE)
        ELSE IF Len(ts) = 0
        THEN dynamic_profile(row, lri, cache, req)
        ELSE static_profile(ts, lri, cache, req, f)

\* ------------------------------------------------------------------ inputs
\* A level of tiles of one size covering [0, IStop), the last one truncated.
UniformLevel(size) ==
    [k \in 1..((IStop + size - 1) \div size) |->
        Interval((k - 1) * size, Min(k * size, IStop))]

TileSets ==
    { << >>,
      << UniformLevel(IStop), UniformLevel((IStop + 1) \div 2) >>,
      << UniformLevel(4), UniformLevel(1) >> }

ViewPoints == (0 - ViewMargin)..(IStop + ViewMargin)

Views == { Interval(p[1], p[2]) : p \in { q \in ViewPoints \X ViewPoints : q[1] <= q[2] } }

\* ----------------------------------------------------------- state machine
\* No artifact cache is in use.
\* CountingDeferredDataSource::new over a newly constructed source: empty
\* queues, nothing in flight, counter zero.
DSNew ==
    /\ infos = << >>
    /\ summary_tiles = << >>
    /\ slot_tiles = << >>
    /\ slot_meta_tiles = << >>
    /\ in_flight = {}
    /\ outstanding_requests = 0
    /\ ds_aborted = FALSE
    /\ issued = << >>
    /\ answered = {}
    /\ delivered = {}
    /\ responses_returned = 0
    /\ spurious_sent = FALSE

\* No deferred data source is in use.
DSIdle == source = "none" /\ DSNew

\* ratio is not being applied.
RTIdle ==
    /\ ratio_level = << >>
    /\ ratio_duration = 0
    /\ ratio_value = None

\* ensure_directory is not being applied.
URIdle ==
    /\ url = None
    /\ url_before = None
    /\ url_calls = 0

\* No export is running.
NVIdle ==
    /\ nv_pc = "none"
    /\ entry_ids = << >>
    /\ info_static = FALSE
    /\ entry_index = 0
    /\ num_requests = 0
    /\ local_slot_tiles = << >>
    /\ unmatched_tiles = << >>
    /\ written = << >>

\* No view is recorded.
VWIdle == view = None

\* write_matched_tile is not called.
WTIdle ==
    /\ zero_time = 0
    /\ item_interval = Interval(0, 0)
    /\ events = None
    /\ write_aborted = FALSE

ExtraIdle == VWIdle /\ WTIdle

RestIdle == RTIdle /\ URIdle /\ NVIdle /\ ExtraIdle

ICIdle ==
    /\ artifacts = << >>
    /\ artifacts_before = << >>
    /\ valid_ids = None
    /\ invalidations = 0

\* TileManager::new
Init ==
    /\ tile_set \in TileSets
    /\ interval = Interval(0, IStop)
    /\ last_request_interval = [f \in BOOLEAN |-> None]
    /\ tile_cache = [f \in BOOLEAN |-> << >>]
    /\ full = FALSE
    /\ request_interval = None
    /\ result = << >>
    /\ path = "new"
    /\ returned = [f \in BOOLEAN |-> None]
    /\ aborted = FALSE
    /\ calls = 0
    /\ ICIdle
    /\ DSIdle
    /\ RestIdle

\* The body of TileManager::request_tiles(view_interval, f), on the fields
\* of the tile manager.
request_tiles_body(view_interval, f) ==
    /\ ~aborted
    /\ \E out \in { request_tiles_slot(
                        tile_set, interval,
                        select(f, last_request_interval[TRUE],
                                  last_request_interval[FALSE]),
                        select(f, tile_cache[TRUE], tile_cache[FALSE]),
                        view_interval, f) } :
          /\ last_request_interval' =
                 [last_request_interval EXCEPT
                      ![select(f, TRUE, FALSE)] = out.last_key]
          /\ tile_cache' =
                 [tile_cache EXCEPT ![select(f, TRUE, FALSE)] = out.cache]
          /\ result' = out.ret
          /\ path' = out.path
          /\ returned' = IF out.abort THEN returned
                         ELSE [returned EXCEPT ![f] =
                                   Some([request |->
                                             intersection(view_interval,
                                                          interval),
                                         tiles |-> out.ret])]
          /\ aborted' = out.abort
    /\ full' = f
    /\ request_interval' = Some(intersection(view_interval, interval))
    /\ calls' = calls + 1
    /\ UNCHANGED << tile_set, interval >>

\* TileManager::request_tiles(view_interval, f)
request_tiles(view_interval, f) ==
    /\ calls < MaxCalls
    /\ request_tiles_body(view_interval, f)
    /\ UNCHANGED << ic_vars, ds_vars, rest_vars >>

Next == \E view_interval \in Views, f \in BOOLEAN : request_tiles(view_interval, f)

Spec == Init /\ [][Next]_vars

\* ------------------------------------------------- request_tiles by view
\* The number of calls of request_tiles whose view is recorded.
ViewCalls == 2

\* TileManager::request_tiles(view_interval, f), with the view recorded.
request_tiles_view(view_interval, f) ==
    /\ calls < ViewCalls
    /\ request_tiles_body(view_interval, f)
    /\ view' = Some([interval |-> view_interval,
                     changed |-> view # None
                                 /\ view[1].interval # view_interval])
    /\ UNCHANGED << ic_vars, ds_vars, rt_vars, ur_vars, nv_vars, wt_vars >>

ViewNext ==
    \E view_interval \in Views, f \in BOOLEAN :
        request_tiles_view(view_interval, f)

SpecView == Init /\ [][ViewNext]_vars

\* -------------------------------------------------------- invalidate_cache
\* No tile manager is in use.
TMIdle ==
    /\ tile_set = << >>
    /\ interval = Interval(0, 0)
    /\ last_request_interval = [f \in BOOLEAN |-> None]
    /\ tile_cache = [f \in BOOLEAN |-> << >>]
    /\ full = FALSE
    /\ request_interval = None
    /\ result = << >>
    /\ path = "new"
    /\ returned = [f \in BOOLEAN |-> None]
    /\ aborted = FALSE
    /\ calls = 0

\* Variant of invalidate_cache with the retain predicate negated.
invalidate_cache_negated(tile_ids, map) ==
    [k \in { k \in DOMAIN map :
                ~(\E i \in 1..Len(tile_ids) : tile_ids[i] = k) } |-> map[k]]

\* cache.retain(|tile_id, _| tile_ids.contains(tile_id))
invalidate_cache(tile_ids, map) ==
    [k \in { k \in DOMAIN map :
                \E i \in 1..Len(tile_ids) : tile_ids[i] = k } |-> map[k]]

\* The keys and values of the artifact maps, and the tile_ids slices.
ArtifactKeys == { Interval(k - 1, k) : k \in 1..NumKeys }

ArtifactValues == { "a", "b" }

ArtifactMaps ==
    UNION { [keys -> ArtifactValues] : keys \in SUBSET ArtifactKeys }

TileIdSlices == UNION { [1..n -> ArtifactKeys] : n \in 0..MaxIds }

ICInit ==
    /\ TMIdle
    /\ DSIdle
    /\ RestIdle
    /\ artifacts \in ArtifactMaps
    /\ artifacts_before = artifacts
    /\ valid_ids = None
    /\ invalidations = 0

\* TileManager::invalidate_cache(tile_ids, &mut artifacts)
invalidate(tile_ids) ==
    /\ invalidations < MaxInvalidations
    /\ artifacts' = invalidate_cache(tile_ids, artifacts)
    /\ artifacts_before' = artifacts
    /\ valid_ids' = Some(tile_ids)
    /\ invalidations' = invalidations + 1
    /\ UNCHANGED << tm_vars, ds_vars, rest_vars >>

ICNext == \E tile_ids \in TileIdSlices : invalidate(tile_ids)

SpecIC == ICInit /\ [][ICNext]_vars

\* -------------------------------------------------------------------- ratio
\* The sum of the first k tile sizes.
RECURSIVE SizesBefore(_, _)
SizesBefore(sizes, k) ==
    IF k = 0 THEN 0 ELSE SizesBefore(sizes, k - 1) + sizes[k]

\* The contiguous tile list with the given tile sizes, starting at 0.
TilesOfSizes(sizes) ==
    [k \in 1..Len(sizes) |->
        Interval(SizesBefore(sizes, k - 1), SizesBefore(sizes, k))]

\* The non-empty tile lists ratio is applied to: one to three tiles of
\* durations 0..RatioMaxTile.
RatioLevels ==
    { TilesOfSizes(sizes) :
        sizes \in UNION { [1..n -> 0..RatioMaxTile] : n \in 1..3 } }

RatioInit ==
    /\ TMIdle
    /\ ICIdle
    /\ DSIdle
    /\ URIdle
    /\ NVIdle
    /\ ExtraIdle
    /\ ratio_level \in RatioLevels
    /\ ratio_duration \in 1..RatioMaxRequest
    /\ ratio_value = None

\* ratio(level) with request_duration > 0
apply_ratio ==
    /\ ratio_value = None
    /\ ratio_value' = Some(ratio(ratio_level, ratio_duration))
    /\ UNCHANGED << ratio_level, ratio_duration >>
    /\ UNCHANGED << tm_vars, ic_vars, ds_vars, ur_vars, nv_vars, extra_vars >>

RatioNext == apply_ratio

SpecRatio == RatioInit /\ [][RatioNext]_vars

\* -------------------------------------------------------- ensure_directory
\* A Url is its scheme, its path as the characters of the serialization
\* ("/" and the letter "a"), its query and its fragment.  A special scheme
\* (https) always has a path that starts with "/"; another hierarchical
\* scheme (foo://host) may have an empty path; a mailto: URL has an opaque
\* path and cannot be a base.
Schemes == { "https", "foo", "mailto" }

cannot_be_a_base(u) == u.scheme = "mailto"

PathChars == { "/", "a" }

PathsUpTo(n) == UNION { [1..k -> PathChars] : k \in 0..n }

HierarchicalPaths ==
    { p \in PathsUpTo(UrlMaxPath) : Len(p) > 0 => p[1] = "/" }

OpaquePaths == { p \in PathsUpTo(2) : Len(p) > 0 /\ p[1] # "/" }

PathsOf(scheme) ==
    CASE scheme = "https" -> { p \in HierarchicalPaths : Len(p) > 0 }
      [] scheme = "foo" -> HierarchicalPaths
      [] OTHER -> OpaquePaths

Urls ==
    UNION { [scheme : {sc}, path : PathsOf(sc),
             query : { None, Some("q") }, fragment : { None, Some("f") }] :
            sc \in Schemes }

\* PathSegmentsMut::pop_if_empty: removes one trailing slash of the path
\* unless it is also the initial slash.
pop_if_empty(segs) ==
    IF Len(segs) <= 1 THEN segs
    ELSE IF segs[Len(segs)] = "/" THEN SubSeq(segs, 1, Len(segs) - 1)
    ELSE segs

\* PathSegmentsMut::push(segment): a "/" separates the segment from the
\* path unless the path is just the initial slash, then the characters of
\* the segment follow.
push(segs, segment) ==
    IF Len(segs) > 1 \/ Len(segs) = 0
    THEN Append(segs, "/") \o segment
    ELSE segs \o segment

ensure_directory(u) ==
    IF cannot_be_a_base(u) THEN u
    ELSE [ u EXCEPT !.path = push(pop_if_empty(u.path), << >>) ]

URLInit ==
    /\ TMIdle
    /\ ICIdle
    /\ DSIdle
    /\ RTIdle
    /\ NVIdle
    /\ ExtraIdle
    /\ url \in { Some(u) : u \in Urls }
    /\ url_before = None
    /\ url_calls = 0

\* url = ensure_directory(&url), at most twice
call_ensure_directory ==
    /\ url_calls < 2
    /\ url_before' = url
    /\ url' = Some(ensure_directory(url[1]))
    /\ url_calls' = url_calls + 1
    /\ UNCHANGED << tm_vars, ic_vars, ds_vars, rt_vars, nv_vars, extra_vars >>

URLNext == call_ensure_directory

SpecURL == URLInit /\ [][URLNext]_vars

\* ------------------------------------------------- deferred data sources
\* Result<T, String>
Ok(v) == [ok |-> TRUE, val |-> v]

Err(msg) == [ok |-> FALSE, val |-> msg]

\* Variant of TileRequest that does not record the full flag.
TileRequest_without_full(entry_id, tile_id, f) ==
    [entry_id |-> entry_id, tile_id |-> tile_id, full |-> FALSE]

\* TileRequest { entry_id: entry_id.clone(), tile_id, full }
TileRequest(entry_id, tile_id, f) ==
    [entry_id |-> entry_id, tile_id |-> tile_id, full |-> f]

\* A queued response.  A tile response is the pair (result, request); an
\* info response is the decoded DataSourceInfo alone (request is None).  id
\* is the position in issued of the fetch the response answers (0: none).
Response(id, res, req) == [id |-> id, result |-> res, request |-> req]

\* self.outstanding_requests += 1
start_request(n) == n + 1

\* Variant of finish_request that subtracts one per drain.
finish_request_by_one(n, res) ==
    IF n >= Len(res)
    THEN [abort |-> FALSE, outstanding |-> n - Min(1, Len(res)), ret |-> res]
    ELSE [abort |-> TRUE, outstanding |-> n, ret |-> << >>]

\* Variant of finish_request without the assertion.
finish_request_unchecked(n, res) ==
    [abort |-> FALSE, outstanding |-> n - Len(res), ret |-> res]

\* let count = result.len() as u64;
\* assert!(self.outstanding_requests >= count);
\* self.outstanding_requests -= count; result
finish_request(n, res) ==
    IF n >= Len(res)
    THEN [abort |-> FALSE, outstanding |-> n - Len(res), ret |-> res]
    ELSE [abort |-> TRUE, outstanding |-> n, ret |-> << >>]

\* Variant of take that leaves the queue as it was.
take_clones(container) == [ret |-> container, left |-> container]

\* std::mem::take(&mut container)
take(container) == [ret |-> container, left |-> << >>]

\* zstd::Decoder::new(body.reader()).map_err(|x| x.to_string())
zstd_decoder(body) == IF body = "bad_zstd" THEN Err("zstd") ELSE Ok(body)

\* ciborium::from_reader(f).map_err(|x| x.to_string())
cbor_from_reader(f) == IF f = "bad_cbor" THEN Err("cbor") ELSE Ok("payload")

\* response.and_then(zstd ..).and_then(cbor ..)
decode(response) ==
    LET decoder == IF response.ok THEN zstd_decoder(response.val) ELSE response
    IN  IF decoder.ok THEN cbor_from_reader(decoder.val) ELSE decoder

\* The callback of request: unwrap() and expect() panic on a failure, so
\* nothing is pushed; otherwise the decoded value is pushed.
request(container, response, id) ==
    IF decode(response).ok
    THEN Append(container, Response(id, decode(response), None))
    ELSE container

\* Variant of the callback of request_extra that unwraps like request.
request_extra_unwraps(container, response, extra, id) ==
    IF decode(response).ok
    THEN Append(container, Response(id, decode(response), Some(extra)))
    ELSE container

\* Variant of the callback of request_extra that stores the queue it built
\* from a copy read before the other pushes: only its own response is left.
request_extra_overwrites(container, response, extra, id) ==
    << Response(id, decode(response), Some(extra)) >>

\* The callback of request_extra: push((result, extra)).
request_extra(container, response, extra, id) ==
    Append(container, Response(id, decode(response), Some(extra)))

\* DeferredDataSourceWrapper: self.infos.push(self.data_source.fetch_info())
wrapper_fetch_info(container, id) ==
    Append(container, Response(id, Ok("payload"), None))

\* DeferredDataSourceWrapper: push((Ok(self.data_source.fetch_..(..)),
\* TileRequest { .. }))
wrapper_fetch_tile(container, entry_id, tile_id, f, id) ==
    Append(container,
           Response(id, Ok("payload"), Some(TileRequest(entry_id, tile_id, f))))

\* The sources the counter wraps: the synchronous wrapper, the HTTP client
\* and any other implementation of the trait, which may break its contract.
Sources == { "wrapper", "http", "other" }

TileKinds == { "summary_tile", "slot_tile", "slot_meta_tile" }

Kinds == { "info" } \cup TileKinds

\* The arguments (entry_id, tile_id, full) of the tile fetches.
FetchArgs == { << "e0", Interval(0, 1), FALSE >>, << "e1", Interval(0, 1), TRUE >> }

\* What the transport hands to a callback: an error string, or a body that
\* is well-formed, is not zstd, or is zstd of something that is not CBOR.
TransportResponses ==
    { Ok("good"), Ok("bad_zstd"), Ok("bad_cbor"), Err("transport") }

QueueOf(k) ==
    CASE k = "info" -> infos
      [] k = "summary_tile" -> summary_tiles
      [] k = "slot_tile" -> slot_tiles
      [] k = "slot_meta_tile" -> slot_meta_tiles

\* The queue of kind k becomes q; the other queues stay as they are.
SetQueue(k, q) ==
    /\ infos' = IF k = "info" THEN q ELSE infos
    /\ summary_tiles' = IF k = "summary_tile" THEN q ELSE summary_tiles
    /\ slot_tiles' = IF k = "slot_tile" THEN q ELSE slot_tiles
    /\ slot_meta_tiles' = IF k = "slot_meta_tile" THEN q ELSE slot_meta_tiles

\* The elements of a sequence.
Range(q) == { q[i] : i \in 1..Len(q) }

DSInit ==
    /\ TMIdle
    /\ ICIdle
    /\ RestIdle
    /\ source \in Sources
    /\ DSNew

\* CountingDeferredDataSource::fetch_description
fetch_description ==
    /\ ~ds_aborted
    /\ UNCHANGED vars

\* CountingDeferredDataSource::outstanding_requests()
read_outstanding_requests ==
    /\ ~ds_aborted
    /\ UNCHANGED vars

\* CountingDeferredDataSource::fetch_info over the wrapped source's
\* fetch_info: the HTTP client posts a request, the others push at once.
counting_fetch_info ==
    /\ outstanding_requests' = start_request(outstanding_requests)
    /\ issued' = Append(issued, [kind |-> "info", request |-> None])
    /\ IF source = "http"
       THEN /\ in_flight' = in_flight \cup
                    { [id |-> Len(issued) + 1, kind |-> "info", extra |-> None] }
            /\ UNCHANGED queue_vars
       ELSE /\ SetQueue("info", wrapper_fetch_info(infos, Len(issued) + 1))
            /\ UNCHANGED in_flight
    /\ UNCHANGED << source, ds_aborted, answered, delivered,
                    responses_returned, spurious_sent >>

\* A fetch_info call on the counter.
fetch_info ==
    /\ ~ds_aborted
    /\ Len(issued) < MaxFetches
    /\ counting_fetch_info
    /\ UNCHANGED << tm_vars, ic_vars, rest_vars >>

\* CountingDeferredDataSource::fetch_<k> over the wrapped source's fetch_<k>
\* for a tile kind k.
counting_fetch_tile(k, entry_id, tile_id, f) ==
    /\ outstanding_requests' = start_request(outstanding_requests)
    /\ issued' = Append(issued,
                        [kind |-> k,
                         request |-> Some([entry_id |-> entry_id,
                                           tile_id |-> tile_id, full |-> f])])
    /\ IF source = "http"
       THEN /\ in_flight' = in_flight \cup
                    { [id |-> Len(issued) + 1, kind |-> k,
                       extra |-> Some(TileRequest(entry_id, tile_id, f))] }
            /\ UNCHANGED queue_vars
       ELSE /\ SetQueue(k, wrapper_fetch_tile(QueueOf(k), entry_id, tile_id, f,
                                              Len(issued) + 1))
            /\ UNCHANGED in_flight
    /\ UNCHANGED << source, ds_aborted, answered, delivered,
                    responses_returned, spurious_sent >>

\* A fetch_<k> call on the counter for a tile kind k.
fetch_tile(k, entry_id, tile_id, f) ==
    /\ ~ds_aborted
    /\ Len(issued) < MaxFetches
    /\ counting_fetch_tile(k, entry_id, tile_id, f)
    /\ UNCHANGED << tm_vars, ic_vars, rest_vars >>

fetch_summary_tile(entry_id, tile_id, f) ==
    fetch_tile("summary_tile", entry_id, tile_id, f)

fetch_slot_tile(entry_id, tile_id, f) ==
    fetch_tile("slot_tile", entry_id, tile_id, f)

fetch_slot_meta_tile(entry_id, tile_id, f) ==
    fetch_tile("slot_meta_tile", entry_id, tile_id, f)

\* CountingDeferredDataSource::get_<k>: the wrapped source's get_<k> takes
\* its queue, finish_request checks and lowers the counter.  When the
\* assertion fails the call panics: nothing is returned.
counting_get(k) ==
    /\ \E t \in { take(QueueOf(k)) } :
       \E fin \in { finish_request(outstanding_requests, t.ret) } :
          /\ SetQueue(k, t.left)
          /\ outstanding_requests' = fin.outstanding
          /\ ds_aborted' = fin.abort
          /\ delivered' = delivered \cup Range(fin.ret)
          /\ responses_returned' = responses_returned + Len(fin.ret)
    /\ UNCHANGED << source, in_flight, issued, answered, spurious_sent >>

\* A get_<k> call on the counter.
get(k) ==
    /\ ~ds_aborted
    /\ counting_get(k)
    /\ UNCHANGED << tm_vars, ic_vars, rest_vars >>

get_infos == get("info")

get_summary_tiles == get("summary_tile")

get_slot_tiles == get("slot_tile")

get_slot_meta_tiles == get("slot_meta_tile")

\* The transport runs the callback of an HTTP request with its response.
callback(req, response) ==
    /\ ~ds_aborted
    /\ source = "http"
    /\ req \in in_flight
    /\ in_flight' = in_flight \ { req }
    /\ answered' = answered \cup { [id |-> req.id, response |-> response] }
    /\ IF req.kind = "info"
       THEN SetQueue("info", request(infos, response, req.id))
       ELSE SetQueue(req.kind, request_extra(QueueOf(req.kind), response,
                                             req.extra[1], req.id))
    /\ UNCHANGED << tm_vars, ic_vars, rest_vars, source, outstanding_requests,
                    ds_aborted, issued, delivered, responses_returned,
                    spurious_sent >>

\* A source that breaks its contract queues a response nobody requested.
spurious(k) ==
    /\ ~ds_aborted
    /\ source = "other"
    /\ ~spurious_sent
    /\ SetQueue(k, Append(QueueOf(k),
                          Response(0, Ok("payload"),
                                   IF k = "info" THEN None
                                   ELSE Some(TileRequest("e0", Interval(0, 1), FALSE)))))
    /\ spurious_sent' = TRUE
    /\ UNCHANGED << tm_vars, ic_vars, rest_vars, source, in_flight,
                    outstanding_requests, ds_aborted, issued, answered,
                    delivered, responses_returned >>

DSNext ==
    \/ fetch_description
    \/ read_outstanding_requests
    \/ fetch_info
    \/ \E args \in FetchArgs : fetch_summary_tile(args[1], args[2], args[3])
    \/ \E args \in FetchArgs : fetch_slot_tile(args[1], args[2], args[3])
    \/ \E args \in FetchArgs : fetch_slot_meta_tile(args[1], args[2], args[3])
    \/ get_infos
    \/ get_summary_tiles
    \/ get_slot_tiles
    \/ get_slot_meta_tiles
    \/ \E req \in in_flight, response \in TransportResponses :
          callback(req, response)
    \/ \E k \in Kinds : spurious(k)

SpecDS == DSInit /\ [][DSNext]_vars

\* ------------------------------------------------------------ NVTXW export
\* const MAX_IN_FLIGHT_REQUESTS: u64 = 100;
MAX_IN_FLIGHT_REQUESTS == 100

\* TileID(info.interval)
full_range_tile_id == Interval(0, 1)

\* tile.entry_id: a tile names its row; a source that keeps its contract
\* answers a fetch with the tile of the row the request names.
entry_id_of(tile) == tile.request[1].entry_id

\* The map without the keys in ks.
MapRemove(map, ks) ==
    IF DOMAIN map \subseteq ks THEN << >>
    ELSE [x \in DOMAIN map \ ks |-> map[x]]

\* unmatched_tiles.entry(e).or_insert((None, None))
or_insert(map, e) ==
    IF e \in DOMAIN map THEN map[e] ELSE [tile |-> None, meta_tile |-> None]

\* The entry ids of a list of tiles.
entry_ids_of(tiles) == { entry_id_of(tiles[i]) : i \in 1..Len(tiles) }

\* The last tile of a list that names row e.
last_of(tiles, e) ==
    tiles[CHOOSE i \in 1..Len(tiles) :
             /\ entry_id_of(tiles[i]) = e
             /\ \A j \in (i + 1)..Len(tiles) : entry_id_of(tiles[j]) # e]

\* Variant of the loop over slot_tiles that starts a fresh entry per tile.
insert_slot_tiles_fresh(map, tiles) ==
    [e \in DOMAIN map \cup entry_ids_of(tiles) |->
        IF e \in entry_ids_of(tiles)
        THEN [tile |-> Some(last_of(tiles, e)), meta_tile |-> None]
        ELSE map[e]]

\* for (tile, _) in slot_tiles {
\*     unmatched_tiles.entry(e).or_insert((None, None)).0 = Some(tile); }
\* The loop leaves, per row, the last tile of the list in side 0 and side 1
\* as it was.
insert_slot_tiles(map, tiles) ==
    [e \in DOMAIN map \cup entry_ids_of(tiles) |->
        IF e \in entry_ids_of(tiles)
        THEN [or_insert(map, e) EXCEPT !.tile = Some(last_of(tiles, e))]
        ELSE map[e]]

\* for (meta_tile, _) in slot_meta_tiles {
\*     unmatched_tiles.entry(e).or_insert((None, None)).1 = Some(meta_tile); }
insert_slot_meta_tiles(map, tiles) ==
    [e \in DOMAIN map \cup entry_ids_of(tiles) |->
        IF e \in entry_ids_of(tiles)
        THEN [or_insert(map, e) EXCEPT !.meta_tile = Some(last_of(tiles, e))]
        ELSE map[e]]

\* The keys of the entries that hold both sides.
matched(map) ==
    { e \in DOMAIN map : map[e].tile # None /\ map[e].meta_tile # None }

\* The i-th smallest element of a set of numbers (the iteration order of a
\* BTreeMap is the order of its keys).
in_order(ks, i) ==
    CHOOSE k \in ks : Cardinality({ other \in ks : other < k }) = i - 1

\* Self::write_matched_tile(interface, streams, zero_time, tile, meta_tile)
\* for the matched entries, in key order.
write_matched_tiles(map) ==
    [i \in 1..Cardinality(matched(map)) |->
        [entry_id |-> in_order(matched(map), i),
         tile |-> map[in_order(matched(map), i)].tile[1],
         meta_tile |-> map[in_order(matched(map), i)].meta_tile[1]]]

\* Variant of retain that empties the holding map.
retain_clears(map) ==
    [map |-> << >>, out |-> write_matched_tiles(map)]

\* Variant of retain that keeps the matched entries.
retain_keeps_matched(map) ==
    [map |-> map, out |-> write_matched_tiles(map)]

\* unmatched_tiles.retain(..): a matched entry is written and removed.
retain(map) ==
    [map |-> MapRemove(map, matched(map)), out |-> write_matched_tiles(map)]

\* Variant of the loop condition that tolerates the two fetches of a row.
more_events_lax(outstanding, n) == outstanding > n + 2

\* Variant of the loop condition that leaves one request outstanding.
more_events_but_one(outstanding, n) == outstanding > n + 1

\* while data_source.outstanding_requests() > num_requests
more_events(outstanding, n) == outstanding > n

\* NVTXW::new and the first line of write: a profile of n slot rows, n in
\* sizes (walk_entry_list yields the Slot entries, each with its own
\* EntryID), over a source; a profile of more than NVRows rows is read
\* through the synchronous wrapper.
NVNew(sizes) ==
    /\ TMIdle
    /\ ICIdle
    /\ RTIdle
    /\ URIdle
    /\ ExtraIdle
    /\ DSNew
    /\ \E n \in sizes :
          /\ entry_ids = [i \in 1..n |-> i]
          /\ source \in IF n <= NVRows THEN Sources ELSE { "wrapper" }
    /\ info_static \in BOOLEAN
    /\ nv_pc = "fetch_info"
    /\ entry_index = 0
    /\ num_requests = 0
    /\ local_slot_tiles = << >>
    /\ unmatched_tiles = << >>
    /\ written = << >>

\* The export of a small profile, or of one of BackpressureRows rows.
NVInit == NVNew((0..NVRows) \cup { BackpressureRows })

\* The export of a small profile.
NVSmallInit == NVNew(0..NVRows)

nv_frame == UNCHANGED << tm_vars, ic_vars, rt_vars, ur_vars, extra_vars >>

\* self.data_source.fetch_info();
write_fetch_info ==
    /\ nv_pc = "fetch_info"
    /\ ~ds_aborted
    /\ counting_fetch_info
    /\ nv_pc' = "check_info"
    /\ UNCHANGED << entry_ids, info_static, entry_index, num_requests,
                    local_slot_tiles, unmatched_tiles, written >>
    /\ nv_frame

\* while info.is_none() { info = self.check_info(); } and, with the info,
\* assert!(info.tile_set.tiles.is_empty()) and the entry into the loop over
\* entry_ids.
check_info ==
    /\ nv_pc = "check_info"
    /\ ~ds_aborted
    /\ counting_get("info")
    /\ IF ds_aborted' \/ Len(infos) = 0
       THEN UNCHANGED << nv_pc, entry_index >>
       ELSE IF info_static
       THEN nv_pc' = "aborted" /\ UNCHANGED entry_index
       ELSE /\ entry_index' = 1
            /\ nv_pc' = IF Len(entry_ids) = 0 THEN "process_events"
                        ELSE "fetch_slot_tile"
    /\ UNCHANGED << entry_ids, info_static, num_requests, local_slot_tiles,
                    unmatched_tiles, written >>
    /\ nv_frame

\* self.data_source.fetch_slot_tile(entry_id, full_range_tile_id, full);
write_fetch_slot_tile ==
    /\ nv_pc = "fetch_slot_tile"
    /\ ~ds_aborted
    /\ counting_fetch_tile("slot_tile", entry_ids[entry_index],
                           full_range_tile_id, TRUE)
    /\ nv_pc' = "fetch_slot_meta_tile"
    /\ UNCHANGED << entry_ids, info_static, entry_index, num_requests,
                    local_slot_tiles, unmatched_tiles, written >>
    /\ nv_frame

\* self.data_source.fetch_slot_meta_tile(entry_id, full_range_tile_id, full);
\* and the call process_events(.., MAX_IN_FLIGHT_REQUESTS)
write_fetch_slot_meta_tile ==
    /\ nv_pc = "fetch_slot_meta_tile"
    /\ ~ds_aborted
    /\ counting_fetch_tile("slot_meta_tile", entry_ids[entry_index],
                           full_range_tile_id, TRUE)
    /\ nv_pc' = "process_events"
    /\ num_requests' = MAX_IN_FLIGHT_REQUESTS
    /\ UNCHANGED << entry_ids, info_static, entry_index, local_slot_tiles,
                    unmatched_tiles, written >>
    /\ nv_frame

\* process_events: the loop condition holds; let slot_tiles =
\* data_source.get_slot_tiles();
process_events_slot_tiles ==
    /\ nv_pc = "process_events"
    /\ ~ds_aborted
    /\ more_events(outstanding_requests, num_requests)
    /\ counting_get("slot_tile")
    /\ local_slot_tiles' = IF ds_aborted' THEN << >> ELSE slot_tiles
    /\ nv_pc' = "process_events_meta"
    /\ UNCHANGED << entry_ids, info_static, entry_index, num_requests,
                    unmatched_tiles, written >>
    /\ nv_frame

\* process_events: let slot_meta_tiles = data_source.get_slot_meta_tiles();
\* the two insertion loops and retain.
process_events_match ==
    /\ nv_pc = "process_events_meta"
    /\ ~ds_aborted
    /\ counting_get("slot_meta_tile")
    /\ IF ds_aborted'
       THEN UNCHANGED << nv_pc, local_slot_tiles, unmatched_tiles, written >>
       ELSE \E kept \in
               { retain(insert_slot_meta_tiles(
                            insert_slot_tiles(unmatched_tiles, local_slot_tiles),
                            slot_meta_tiles)) } :
               /\ unmatched_tiles' = kept.map
               /\ written' = written \o kept.out
               /\ local_slot_tiles' = << >>
               /\ nv_pc' = "process_events"
    /\ UNCHANGED << entry_ids, info_static, entry_index, num_requests >>
    /\ nv_frame

\* process_events(.., MAX_IN_FLIGHT_REQUESTS) returns: the next entry of
\* entry_ids or, after the last, the call process_events(.., 0).
process_events_return ==
    /\ nv_pc = "process_events"
    /\ ~ds_aborted
    /\ ~more_events(outstanding_requests, num_requests)
    /\ entry_index <= Len(entry_ids)
    /\ entry_index' = entry_index + 1
    /\ IF entry_index < Len(entry_ids)
       THEN nv_pc' = "fetch_slot_tile" /\ UNCHANGED num_requests
       ELSE nv_pc' = "process_events" /\ num_requests' = 0
    /\ UNCHANGED << entry_ids, info_static, local_slot_tiles, unmatched_tiles,
                    written >>
    /\ UNCHANGED ds_vars
    /\ nv_frame

\* process_events(.., 0) returns; assert!(unmatched_tiles.is_empty());
write_finish ==
    /\ nv_pc = "process_events"
    /\ ~ds_aborted
    /\ ~more_events(outstanding_requests, num_requests)
    /\ entry_index > Len(entry_ids)
    /\ num_requests = 0
    /\ nv_pc' = IF DOMAIN unmatched_tiles = {} THEN "done" ELSE "aborted"
    /\ UNCHANGED << entry_ids, info_static, entry_index, num_requests,
                    local_slot_tiles, unmatched_tiles, written >>
    /\ UNCHANGED ds_vars
    /\ nv_frame

\* The transport answers an HTTP request of the export with a well-formed
\* body.
nv_callback(req) ==
    /\ nv_pc \notin { "done", "aborted" }
    /\ callback(req, Ok("good"))

\* A source that breaks its contract answers a fetch with the tile of
\* another row (0: a row that is not in the profile).
mislabel(k, i, e) ==
    /\ nv_pc \notin { "done", "aborted" }
    /\ ~ds_aborted
    /\ source = "other"
    /\ ~spurious_sent
    /\ i \in 1..Len(QueueOf(k))
    /\ e # entry_id_of(QueueOf(k)[i])
    /\ SetQueue(k, [QueueOf(k) EXCEPT
                       ![i].request = Some([@[1] EXCEPT !.entry_id = e])])
    /\ spurious_sent' = TRUE
    /\ UNCHANGED << source, in_flight, outstanding_requests, ds_aborted,
                    issued, answered, delivered, responses_returned >>
    /\ UNCHANGED nv_vars
    /\ nv_frame

NVStep ==
    \/ write_fetch_info
    \/ check_info
    \/ write_fetch_slot_tile
    \/ write_fetch_slot_meta_tile
    \/ process_events_slot_tiles
    \/ process_events_match
    \/ process_events_return
    \/ write_finish

NVTransport == \E req \in in_flight : nv_callback(req)

NVNext ==
    \/ NVStep
    \/ NVTransport
    \/ \E k \in { "slot_tile", "slot_meta_tile" }, i \in 1..NVRows,
          e \in 0..NVRows : mislabel(k, i, e)

SpecNV == NVInit /\ [][NVNext]_vars

\* The export runs, and the transport answers, as long as they can.
SpecNVFair ==
    NVSmallInit /\ [][NVNext]_vars /\ WF_vars(NVStep) /\ WF_vars(NVTransport)

\* ------------------------------------------------- NVTXW write_matched_tile
\* The width of the integers of write_matched_tile: i64 and u64 are
\* modelled with TimestampBits bits.
TimestampBits == 4

\* The number of u64 values.
U64Values == 2 ^ TimestampBits

\* The i64 values.
I64 == (0 - 2 ^ (TimestampBits - 1))..(2 ^ (TimestampBits - 1) - 1)

\* x as u64, for an i64 x: the same bits, read as unsigned.
as_u64(x) == x % U64Values

\* zero_time.try_into(): an Option, None for the Err of a negative value.
try_into(x) == IF x >= 0 THEN Some(x) ELSE None

\* a.checked_add(b): None when the sum does not fit in u64.
checked_add(a, b) == IF a + b < U64Values THEN Some(a + b) ELSE None

\* (t.0 as u64).checked_add(zero_time.try_into().unwrap()).expect(..):
\* None when unwrap or expect panics.
event_time(t, zero) ==
    IF try_into(zero) = None
    THEN None
    ELSE checked_add(as_u64(t), try_into(zero)[1])

\* A matched item with its interval, and the zero_time of the export.
WMTInit ==
    /\ TMIdle
    /\ ICIdle
    /\ DSIdle
    /\ RTIdle
    /\ URIdle
    /\ NVIdle
    /\ VWIdle
    /\ zero_time \in I64
    /\ \E a, b \in I64 : a <= b /\ item_interval = Interval(a, b)
    /\ events = None
    /\ write_aborted = FALSE

\* The body of the loop of write_matched_tile for one item: the event is
\* built and handed to event_write, unless a panic ends the export.
write_matched_tile ==
    /\ events = None
    /\ ~write_aborted
    /\ \E time_start \in { event_time(item_interval.start, zero_time) } :
       \E time_stop \in { event_time(item_interval.stop, zero_time) } :
          IF time_start = None \/ time_stop = None
          THEN write_aborted' = TRUE /\ UNCHANGED events
          ELSE /\ events' = Some([time_start |-> time_start[1],
                                  time_stop |-> time_stop[1]])
               /\ UNCHANGED write_aborted
    /\ UNCHANGED << zero_time, item_interval >>
    /\ UNCHANGED << tm_vars, ic_vars, ds_vars, rt_vars, ur_vars, nv_vars,
                    vw_vars >>

WMTNext == write_matched_tile

SpecWMT == WMTInit /\ [][WMTNext]_vars

\* ------------------------------------------------------------------ claims
Dynamic == Len(tile_set) = 0

Called == path # "new" /\ ~aborted

\* The request interval of the most recent call.
LastRequest == request_interval[1]

\* t lies in one of the tiles (half-open).
Covered(tiles, t) ==
    \E i \in 1..Len(tiles) : tiles[i].start <= t /\ t < tiles[i].stop

\* C1 (memo stability): when two consecutive calls have the same full flag
\* and the same request interval, the second returns the list the first
\* returned and leaves last_request_interval and tile_cache unchanged.
C1_MemoStability ==
    [][(Called /\ calls' = calls + 1 /\ full' = full
            /\ request_interval' = request_interval)
       => (/\ result' = result
           /\ last_request_interval' = last_request_interval
           /\ tile_cache' = tile_cache)]_vars

\* Two calls were made, the second a memo hit on a non-empty list: the
\* first call had the same flag and request interval.
C1_Witness ==
    calls = 2 /\ path = "memo" /\ Len(result) > 0 /\ Dynamic

\* C2 (coverage): whenever the most recent call had a non-empty request
\* interval, every instant of it lies in a returned tile.
C2_Coverage ==
    (Called /\ duration_ns(LastRequest) > 0)
    => \A t \in LastRequest.start..(LastRequest.stop - 1) : Covered(result, t)

\* An extension that added tiles on both sides of the cache.
C2_Witness ==
    /\ Called /\ Dynamic /\ path = "extend" /\ Len(result) >= 3
    /\ duration_ns(LastRequest) > 0

\* C3 (containment): every cached tile and every returned tile lies within
\* the row interval.
C3_Containment ==
    /\ \A f \in BOOLEAN : \A i \in 1..Len(tile_cache[f]) :
           /\ interval.start <= tile_cache[f][i].start
           /\ tile_cache[f][i].stop <= interval.stop
    /\ \A i \in 1..Len(result) :
           /\ interval.start <= result[i].start
           /\ result[i].stop <= interval.stop

\* An extension whose first tile was truncated at the start of the row.
C3_Witness ==
    /\ Called /\ Dynamic /\ path = "extend" /\ Len(result) >= 2
    /\ result[1].start = interval.start
    /\ duration_ns(result[1]) < duration_ns(result[2])
    /\ result = tile_cache[full]

\* C4 (dynamic cache shape): in dynamic mode the tiles of each cache are
\* sorted by start, do not overlap and are contiguous (each tile stops where
\* the next one starts).
C4_DynamicCacheShape ==
    Dynamic =>
        \A f \in BOOLEAN : \A i \in 1..(Len(tile_cache[f]) - 1) :
            /\ tile_cache[f][i].start < tile_cache[f][i + 1].start
            /\ tile_cache[f][i].stop = tile_cache[f][i + 1].start

\* The tile overlaps the most recent request interval (half-open).
OverlapsRequest(tile) ==
    tile.start < LastRequest.stop /\ LastRequest.start < tile.stop

\* C5 as stated (static correctness): in static mode every call with
\* full = true returns the finest level filtered to the tiles overlapping
\* the request interval.
C5_StaticFull ==
    (Called /\ ~Dynamic /\ full)
    => result = SelectSeq(tile_set[Len(tile_set)], OverlapsRequest)

\* C5 as amended: in static mode a call with full = true returns the finest
\* level filtered to the tiles overlapping the request interval when that
\* interval is non-empty, and the empty list when it is empty.
C5_StaticFullNonEmpty ==
    (Called /\ ~Dynamic /\ full)
    => IF duration_ns(LastRequest) > 0
       THEN result = SelectSeq(tile_set[Len(tile_set)], OverlapsRequest)
       ELSE result = << >>

\* A later full call in static mode that returned a proper, non-empty part
\* of the finest level.
C5_Witness ==
    /\ Called /\ ~Dynamic /\ full /\ calls >= 2 /\ path = "static"
    /\ duration_ns(LastRequest) > 0
    /\ Len(result) >= 1 /\ Len(result) < Len(tile_set[Len(tile_set)])

\* The larger duration of the first two tiles of level i, and the two sides
\* of its ratio with the duration of the most recent request.
LevelSize(i) ==
    IF Len(tile_set[i]) >= 2
    THEN Max(tile_set[i][1].stop - tile_set[i][1].start,
             tile_set[i][2].stop - tile_set[i][2].start)
    ELSE tile_set[i][1].stop - tile_set[i][1].start

Larger(i) == Max(LevelSize(i), LastRequest.stop - LastRequest.start)

Smaller(i) == Min(LevelSize(i), LastRequest.stop - LastRequest.start)

\* ratio(level i) < ratio(level j), and equality, on the exact fractions.
RatioLess(i, j) == Larger(i) * Smaller(j) < Larger(j) * Smaller(i)

RatioEqual(i, j) == Larger(i) * Smaller(j) = Larger(j) * Smaller(i)

\* The earliest level whose ratio is minimal.
BestLevel ==
    CHOOSE i \in 1..Len(tile_set) :
        /\ \A j \in 1..Len(tile_set) : ~RatioLess(j, i)
        /\ \A j \in 1..(i - 1) : ~RatioEqual(j, i)

\* C6 (static level choice): in static mode a call with full = false and a
\* non-empty request interval returns the tiles overlapping it from the
\* earliest level of minimal ratio.
C6_StaticLevelChoice ==
    (Called /\ ~Dynamic /\ ~full /\ duration_ns(LastRequest) > 0)
    => result = SelectSeq(tile_set[BestLevel], OverlapsRequest)

\* A non-full static call for which two levels tie at the minimal ratio.
C6_Witness ==
    /\ Called /\ ~Dynamic /\ ~full /\ path = "static"
    /\ duration_ns(LastRequest) > 0
    /\ \E j \in 1..Len(tile_set) : j > BestLevel /\ RatioEqual(BestLevel, j)
    /\ Len(result) >= 1

\* C7 (empty request): a call whose request interval has duration <= 0 and
\* is not the memoised one returns the empty list, memoises the request
\* interval and clears the cache of its slot.
C7_EmptyRequest ==
    [][(/\ calls' = calls + 1 /\ ~aborted'
        /\ duration_ns(request_interval'[1]) <= 0
        /\ last_request_interval[full'] # request_interval')
       => (/\ result' = << >>
           /\ last_request_interval'[full'] = request_interval'
           /\ tile_cache'[full'] = << >>)]_vars

\* An empty request served after an earlier call on the same slot, the
\* request interval being empty in the interior of the row.
C7_Witness ==
    /\ Called /\ path = "empty" /\ calls >= 2
    /\ last_request_interval[~full] = None
    /\ LastRequest.start = LastRequest.stop
    /\ interval.start < LastRequest.start /\ LastRequest.stop < interval.stop
    /\ tile_cache[full] = << >>

\* C8 (memo invariant): for each full value, if last_request_interval is
\* Some(R) then the most recent call with that full value had request
\* interval R and returned the list now in tile_cache.
C8_MemoInvariant ==
    \A f \in BOOLEAN :
        last_request_interval[f] # None
        => returned[f] = Some([request |-> last_request_interval[f][1],
                               tiles |-> tile_cache[f]])

\* Both slots memoised, the most recent call having reused its cache for a
\* request other than the one that built it.
C8_Witness ==
    /\ Called /\ Dynamic /\ path = "reuse"
    /\ last_request_interval[TRUE] # None
    /\ last_request_interval[FALSE] # None
    /\ result # << LastRequest >>

\* C9 (slot independence): a call leaves last_request_interval and
\* tile_cache of the other full value unchanged.
C9_SlotIndependence ==
    [][calls' = calls + 1
       => (/\ last_request_interval'[~full'] = last_request_interval[~full']
           /\ tile_cache'[~full'] = tile_cache[~full'])]_vars

\* Both slots hold tiles, and different ones.
C9_Witness ==
    /\ Called /\ calls >= 2
    /\ Len(tile_cache[TRUE]) > 0 /\ Len(tile_cache[FALSE]) > 0
    /\ tile_cache[TRUE] # tile_cache[FALSE]
    /\ last_request_interval[TRUE] # last_request_interval[FALSE]

\* The larger duration of the first two tiles of a cached list.
CachedSize(tiles) ==
    IF Len(tiles) >= 2
    THEN Max(tiles[1].stop - tiles[1].start, tiles[2].stop - tiles[2].start)
    ELSE tiles[1].stop - tiles[1].start

\* C10 (dynamic drift bound): when a call in dynamic mode returns the
\* existing cache or an extension of it, the cached tile size and the new
\* request duration, larger over smaller, are within a factor 2.
C10_DriftBound ==
    [][(calls' = calls + 1 /\ Dynamic /\ path' \in {"reuse", "extend"})
       => (/\ Len(tile_cache[full']) > 0
           /\ Max(CachedSize(tile_cache[full']),
                  duration_ns(request_interval'[1]))
              <= 2 * Min(CachedSize(tile_cache[full']),
                         duration_ns(request_interval'[1])))]_vars

\* A reuse at the bound itself: the request is half the cached tile.
C10_Witness ==
    /\ Called /\ Dynamic /\ path = "reuse" /\ Len(result) = 1
    /\ duration_ns(result[1]) = 2 * duration_ns(LastRequest)

\* The tiles of a level that overlap r (half-open), in level order.
OverlappingTiles(level, r) ==
    LET Test(tile) == tile.start < r.stop /\ r.start < tile.stop
    IN  SelectSeq(level, Test)

\* tiles is a run of consecutive elements of level.
ContiguousIn(tiles, level) ==
    \E a \in 1..(Len(level) + 1) : \E b \in 0..Len(level) :
        tiles = SubSeq(level, a, b)

\* C11 (static cache shape): in static mode each cache is a contiguous run
\* of one level of tile_set, namely the tiles of that level overlapping the
\* memoised request interval; it is empty before the first request and
\* after an empty request.
C11_StaticCacheShape ==
    ~Dynamic =>
        \A f \in BOOLEAN :
            IF last_request_interval[f] = None
               \/ duration_ns(last_request_interval[f][1]) <= 0
            THEN tile_cache[f] = << >>
            ELSE \E l \in 1..Len(tile_set) :
                    /\ tile_cache[f] =
                           OverlappingTiles(tile_set[l],
                                            last_request_interval[f][1])
                    /\ ContiguousIn(tile_cache[f], tile_set[l])

\* A later static call that cached a run from the middle of the finest
\* level.
C11_Witness ==
    /\ Called /\ ~Dynamic /\ full /\ path = "static" /\ calls >= 2
    /\ Len(tile_cache[TRUE]) >= 2
    /\ Len(tile_cache[TRUE]) < Len(tile_set[Len(tile_set)])
    /\ tile_cache[TRUE][1].start > interval.start

\* C12 (no error path): no call aborts: every call made from a reachable
\* state, for every view and full value, completes and returns a list.
C12_NoErrorPath == ~aborted /\ path # "abort"

\* A third or later non-full static call, which compared the ratios of two
\* levels, has returned.
C12_Witness ==
    /\ Called /\ ~Dynamic /\ ~full /\ path = "static" /\ calls >= 3
    /\ Len(tile_set) >= 2 /\ Len(result) >= 1

\* The tile ids of a slice.
IdsOf(tile_ids) == { tile_ids[i] : i \in 1..Len(tile_ids) }

\* C14 (invalidate_cache): a call removes exactly the entries whose key is
\* not in tile_ids, keeps the others with their values, adds nothing, and
\* applying it again with the same tile_ids changes nothing.
C14_InvalidateCache ==
    [][invalidations' = invalidations + 1
       => (/\ DOMAIN artifacts' = DOMAIN artifacts \cap IdsOf(valid_ids'[1])
           /\ \A k \in DOMAIN artifacts' : artifacts'[k] = artifacts[k]
           /\ DOMAIN artifacts' \subseteq DOMAIN artifacts
           /\ invalidate_cache(valid_ids'[1], artifacts') = artifacts')]_vars

\* A call that removed an entry, kept another and was given an id that is
\* not a key of the map.
C14_Witness ==
    /\ invalidations >= 1
    /\ DOMAIN artifacts # {}
    /\ DOMAIN artifacts # DOMAIN artifacts_before
    /\ IdsOf(valid_ids[1]) \ DOMAIN artifacts_before # {}

\* The responses waiting in the source's queues.
Queued == UNION { Range(QueueOf(k)) : k \in Kinds }

\* The wrapped source is one of the two sources of the repository.
RepositorySource == source \in { "wrapper", "http" }

\* The step took responses from the queue of kind k, as get_* of kind k does.
Drained(k) == Len(QueueOf(k)') < Len(QueueOf(k))

\* C15 (outstanding counter): outstanding_requests equals the number of
\* fetch_* calls made so far minus the number of responses returned so far
\* by get_*; a step that neither fetches nor returns a response, such as
\* fetch_description and outstanding_requests(), leaves the counter as it is.
C15_OutstandingCounter ==
    /\ [](outstanding_requests = Len(issued) - responses_returned)
    /\ [][(issued' = issued /\ responses_returned' = responses_returned)
          => outstanding_requests' = outstanding_requests]_vars

\* Two fetches were made and a get_* returned one of the two responses.
C15_Witness ==
    /\ Len(issued) = 2
    /\ responses_returned = 1
    /\ outstanding_requests = 1

\* C16 (counter never negative): the counter is never negative; while the
\* wrapped source queues at most one response per fetch the assertion of
\* finish_request never fails, in any interleaving of fetches, completions
\* and drains; a drain of more responses than are outstanding aborts and
\* leaves the counter as it is.
C16_CounterNeverNegative ==
    /\ [](/\ outstanding_requests >= 0
          /\ ~spurious_sent => ~ds_aborted)
    /\ [][\A k \in Kinds :
            (Drained(k) /\ Len(QueueOf(k)) > outstanding_requests)
            => (ds_aborted' /\ outstanding_requests' = outstanding_requests
                /\ responses_returned' = responses_returned)]_vars

\* A drain returned more responses than were fetched and aborted.
C16_Witness ==
    /\ ds_aborted
    /\ spurious_sent
    /\ responses_returned >= 1

\* C17 (exactly-once drain per kind), for the wrapper and the HTTP client:
\* a get_* of kind k returns exactly the responses queued for k and leaves
\* that queue empty (so an immediately repeated get_* returns nothing),
\* leaves the other queues alone and returns only responses to fetches of
\* kind k; no response is returned twice or stays queued once returned.
C17_ExactlyOnceDrain ==
    /\ [](RepositorySource
          => /\ responses_returned = Cardinality(delivered)
             /\ Queued \cap delivered = {}
             /\ \A k \in Kinds : \A i, j \in 1..Len(QueueOf(k)) :
                   QueueOf(k)[i] = QueueOf(k)[j] => i = j)
    /\ [][RepositorySource
          => /\ (delivered' # delivered \/ responses_returned' # responses_returned)
                => \E k \in Kinds : Drained(k)
             /\ \A k \in Kinds :
                Drained(k)
                => /\ QueueOf(k)' = << >>
                   /\ delivered' = delivered \cup Range(QueueOf(k))
                   /\ responses_returned' = responses_returned + Len(QueueOf(k))
                   /\ \A r \in Range(QueueOf(k)) : issued[r.id].kind = k
                   /\ \A j \in Kinds \ { k } : QueueOf(j)' = QueueOf(j)]_vars

\* A get_* returned a response while a response of another kind stayed
\* queued, with the HTTP client.
C17_Witness ==
    /\ source = "http"
    /\ \E r \in delivered : \E q \in Queued : issued[r.id].kind # issued[q.id].kind

\* C18 (response liveness): every fetch_* call has a response: its request
\* is still in flight, or exactly one response to it is queued or has been
\* returned.  A request that is not in flight can get no response later, so
\* a state that breaks this breaks the eventual response.
C18_EveryFetchAnswered ==
    RepositorySource
    => \A i \in 1..Len(issued) :
          \/ \E req \in in_flight : req.id = i
          \/ Cardinality({ r \in Queued \cup delivered : r.id = i }) = 1

\* What a tile response carries for a transport response.
ExpectedResult(response) ==
    CASE response = Err("transport") -> Err("transport")
      [] response = Ok("bad_zstd") -> Err("zstd")
      [] response = Ok("bad_cbor") -> Err("cbor")
      [] OTHER -> Ok("payload")

\* C19 (per-request errors): every tile fetch whose callback has run,
\* whether it failed in the transport, in zstd or in CBOR, has exactly one
\* response, queued or returned, carrying its own result (Err(message) for a
\* failure) and its own request, whatever happened to the other fetches.
C19_PerRequestErrors ==
    \A a \in answered :
       issued[a.id].kind \in TileKinds
       => /\ Cardinality({ r \in Queued \cup delivered : r.id = a.id }) = 1
          /\ \A r \in Queued \cup delivered :
                r.id = a.id
                => /\ r.result = ExpectedResult(a.response)
                   /\ r.request = issued[a.id].request

\* A failed tile fetch and a successful one were both returned.
C19_Witness ==
    \E r1, r2 \in delivered :
       /\ r1.request # None /\ r2.request # None
       /\ ~r1.result.ok
       /\ r2.result.ok
       /\ \E a \in answered : a.id = r1.id /\ a.response = Ok("bad_cbor")

\* C20 (request echo), for the wrapper and the HTTP client: every tile
\* response, queued or returned, carries the (entry_id, tile_id, full) of
\* the fetch_* call it answers, in any order of completion.
C20_RequestEcho ==
    RepositorySource
    => \A r \in Queued \cup delivered :
          r.request # None
          => /\ r.id \in 1..Len(issued)
             /\ r.request[1].entry_id = issued[r.id].request[1].entry_id
             /\ r.request[1].tile_id = issued[r.id].request[1].tile_id
             /\ r.request[1].full = issued[r.id].request[1].full

\* The second of two tile fetches with differing arguments completed and was
\* returned while the first was still in flight.
C20_Witness ==
    /\ source = "http"
    /\ \E r \in delivered : r.id = 2 /\ r.request # None /\ r.request[1].full
    /\ \E req \in in_flight :
          req.id = 1 /\ req.extra # None /\ ~req.extra[1].full

\* A completed call in dynamic mode, seen as a step: the cache of its slot
\* before the call and its request interval.
DynamicCall == calls' = calls + 1 /\ Dynamic /\ ~aborted'

PrevCache == tile_cache[full']

NewRequest == request_interval'[1]

MemoHit == last_request_interval[full'] = request_interval'

\* The union of the tiles of a non-empty list.
Envelope(tiles) ==
    [start |-> CHOOSE a \in { tiles[i].start : i \in 1..Len(tiles) } :
                   \A i \in 1..Len(tiles) : a <= tiles[i].start,
     stop |-> CHOOSE b \in { tiles[i].stop : i \in 1..Len(tiles) } :
                  \A i \in 1..Len(tiles) : tiles[i].stop <= b]

\* ratio(tiles) <= 2.0 for a request of duration d > 0.
WithinTwo(tiles, d) ==
    /\ CachedSize(tiles) > 0
    /\ Max(CachedSize(tiles), d) <= 2 * Min(CachedSize(tiles), d)

EnvelopeContains(tiles, r) ==
    Envelope(tiles).start <= r.start /\ r.stop <= Envelope(tiles).stop

EnvelopeOverlaps(tiles, r) ==
    Envelope(tiles).start < r.stop /\ r.start < Envelope(tiles).stop

\* C24 as stated (dynamic reuse with hysteresis): in dynamic mode, with a
\* non-empty cache whose envelope contains the non-empty request R, the call
\* returns the cache unchanged and memoises R when ratio(cache) <= 2.0, and
\* replaces the cache by the single tile [R] when the ratio exceeds 2.0.
C24_DynamicReuse ==
    [][(/\ DynamicCall /\ Len(PrevCache) > 0 /\ duration_ns(NewRequest) > 0
        /\ EnvelopeContains(PrevCache, NewRequest))
       => IF WithinTwo(PrevCache, duration_ns(NewRequest))
          THEN /\ tile_cache'[full'] = PrevCache
               /\ result' = PrevCache
               /\ last_request_interval'[full'] = Some(NewRequest)
          ELSE /\ tile_cache'[full'] = << NewRequest >>
               /\ result' = << NewRequest >>
               /\ last_request_interval'[full'] = Some(NewRequest)]_vars

\* A reuse at the bound 2.0 itself, for a request other than the memoised
\* one, the cache holding more than one tile.
C24_Witness ==
    /\ Called /\ Dynamic /\ path = "reuse" /\ Len(result) >= 2
    /\ CachedSize(result) = 2 * duration_ns(LastRequest)
    /\ tile_cache[full] = result

\* The ceiling of a / b for b > 0, and 0 when a <= 0.
CeilingTiles(a, b) == IF a <= 0 THEN 0 ELSE (a + b - 1) \div b

\* The tile translated by delta and cut to the row interval.
ShiftedInRow(tile, delta) ==
    [start |-> Max(tile.start + delta, interval.start),
     stop |-> Min(tile.stop + delta, interval.stop)]

\* The extension of a cached list for the request r, as the claim gives it.
ExtendedCache(tiles, r) ==
    LET T == tiles[1].stop - tiles[1].start
        nb == CeilingTiles(Min(r.stop, Envelope(tiles).start) - r.start, T)
        na == CeilingTiles(r.stop - Max(r.start, Envelope(tiles).stop), T)
    IN  [i \in 1..nb |-> ShiftedInRow(tiles[1], ((i - 1) - nb) * T)]
        \o tiles
        \o [i \in 1..na |-> ShiftedInRow(tiles[Len(tiles)], i * T)]

\* C25 (dynamic extension): in dynamic mode, when ratio(cache) <= 2.0 and the
\* request R overlaps the cache envelope E without being contained in it, the
\* new cache is nb translated copies of the first cached tile, the cached
\* tiles in order, and na translated copies of the last cached tile, each new
\* tile cut to the row interval, with T the duration of the first cached tile;
\* the call returns it and memoises R.
C25_DynamicExtension ==
    [][(/\ DynamicCall /\ Len(PrevCache) > 0 /\ duration_ns(NewRequest) > 0
        /\ EnvelopeOverlaps(PrevCache, NewRequest)
        /\ ~EnvelopeContains(PrevCache, NewRequest)
        /\ WithinTwo(PrevCache, duration_ns(NewRequest)))
       => (/\ tile_cache'[full'] = ExtendedCache(PrevCache, NewRequest)
           /\ result' = ExtendedCache(PrevCache, NewRequest)
           /\ last_request_interval'[full'] = Some(NewRequest))]_vars

\* An extension that added a tile cut by the row on the left and two tiles
\* on the right of a cache.
C25_Witness ==
    /\ Called /\ Dynamic /\ path = "extend" /\ Len(result) >= 4
    /\ result[1].start = interval.start
    /\ duration_ns(result[Len(result)]) = duration_ns(result[Len(result) - 1])
    /\ result[Len(result) - 1].start = result[Len(result) - 2].stop
    /\ tile_cache[full] = result

\* C26 (dynamic re-tile): in dynamic mode a non-empty request R that is not
\* the memoised one, with the cache empty, or ratio(cache) > 2.0, or R not
\* overlapping the cache envelope (touching it at an endpoint included),
\* replaces the cache by the single tile [R], returns it and memoises R.
C26_DynamicRetile ==
    [][(/\ DynamicCall /\ duration_ns(NewRequest) > 0 /\ ~MemoHit
        /\ \/ Len(PrevCache) = 0
           \/ ~WithinTwo(PrevCache, duration_ns(NewRequest))
           \/ ~EnvelopeOverlaps(PrevCache, NewRequest))
       => (/\ tile_cache'[full'] = << NewRequest >>
           /\ result' = << NewRequest >>
           /\ last_request_interval'[full'] = Some(NewRequest))]_vars

\* The third call on a slot replaced its cache by a single tile for a
\* request shorter than half the row.
C26_Witness ==
    /\ Called /\ Dynamic /\ path = "fresh" /\ calls >= 3
    /\ last_request_interval[~full] = None
    /\ result = << LastRequest >>
    /\ tile_cache[full] = result
    /\ 2 * duration_ns(LastRequest) < duration_ns(interval)

\* C27 (slot state machine): for each full value the slot is (None, []),
\* or (Some(R), non-empty list) with R non-empty, or (Some(R), []) with R
\* empty; once last_request_interval is Some it never becomes None again.
C27_SlotStates ==
    /\ [](\A f \in BOOLEAN :
            IF last_request_interval[f] = None
            THEN tile_cache[f] = << >>
            ELSE (tile_cache[f] = << >>)
                 <=> (duration_ns(last_request_interval[f][1]) <= 0))
    /\ [][\A f \in BOOLEAN :
            last_request_interval[f] # None
            => last_request_interval'[f] # None]_vars

\* One slot never used, the other memoising an empty request after it held
\* tiles.
C27_Witness ==
    /\ Called /\ calls >= 2 /\ path = "empty"
    /\ last_request_interval[~full] = None /\ tile_cache[~full] = << >>
    /\ last_request_interval[full] # None /\ tile_cache[full] = << >>

\* D of the claim: the larger duration of the first two tiles.
LargerOfFirstTwo(tiles) ==
    IF Len(tiles) = 1 THEN tiles[1].stop - tiles[1].start
    ELSE Max(tiles[1].stop - tiles[1].start, tiles[2].stop - tiles[2].start)

\* C28 (ratio): for a non-empty tile list and a request duration d > 0 the
\* ratio is d / D when D < d and D / d otherwise, D being the larger duration
\* of the first two tiles (of the first when there is one), and it is >= 1.0
\* (+infinity, written with denominator 0, when D = 0).
C28_RatioAtLeastOne ==
    ratio_value # None
    => /\ IF LargerOfFirstTwo(ratio_level) < ratio_duration
          THEN ratio_value[1] = [num |-> ratio_duration,
                                 den |-> LargerOfFirstTwo(ratio_level)]
          ELSE ratio_value[1] = [num |-> LargerOfFirstTwo(ratio_level),
                                 den |-> ratio_duration]
       /\ ratio_value[1].den >= 0
       /\ ratio_value[1].num > 0
       /\ ratio_value[1].num >= ratio_value[1].den

\* The ratio of a list whose second tile is the larger one, for a request
\* between the two tile sizes.
C28_Witness ==
    /\ ratio_value # None
    /\ Len(ratio_level) >= 2
    /\ duration_ns(ratio_level[1]) < ratio_duration
    /\ ratio_duration < duration_ns(ratio_level[2])
    /\ ratio_value[1].num > ratio_value[1].den

EndsInSlash(p) == Len(p) > 0 /\ p[Len(p)] = "/"

\* C23 (ensure_directory): the result of a call has the argument's query and
\* fragment; a mailto: URL is returned unchanged; a hierarchical URL whose
\* path ends in a slash is returned unchanged and one whose path does not
\* gets exactly one slash appended; a second call returns its argument.
C23_EnsureDirectory ==
    url_calls >= 1
    => /\ url[1].scheme = url_before[1].scheme
       /\ url[1].query = url_before[1].query
       /\ url[1].fragment = url_before[1].fragment
       /\ cannot_be_a_base(url_before[1]) => url = url_before
       /\ (~cannot_be_a_base(url_before[1]) /\ EndsInSlash(url_before[1].path))
          => url = url_before
       /\ (~cannot_be_a_base(url_before[1]) /\ ~EndsInSlash(url_before[1].path))
          => url[1].path = Append(url_before[1].path, "/")
       /\ url_calls = 2 => url = url_before

\* The export is in its loop over entry_ids (the issue loop).
InIssueLoop ==
    /\ nv_pc \in { "fetch_slot_tile", "fetch_slot_meta_tile",
                   "process_events", "process_events_meta" }
    /\ entry_index \in 1..Len(entry_ids)

\* C22 (backpressure): at every point of the export's issue loop the number
\* of outstanding requests is at most MAX_IN_FLIGHT_REQUESTS.
C22_Backpressure ==
    InIssueLoop => outstanding_requests <= MAX_IN_FLIGHT_REQUESTS

\* The rows of the profile.
Rows == { entry_ids[i] : i \in 1..Len(entry_ids) }

\* The export has ended, by returning or by a failed assertion.
Ended == nv_pc \in { "done", "aborted" } \/ ds_aborted

\* The step is the return of process_events(.., 0) to write.
FinalReturn ==
    nv_pc = "process_events" /\ nv_pc' \in { "done", "aborted" }

C29_ProcessEvents ==
    /\ [][(/\ nv_pc = "process_events"
           /\ nv_pc' # "process_events_meta"
           /\ << nv_pc, entry_index >>' # << nv_pc, entry_index >>)
            => outstanding_requests <= num_requests]_vars
    /\ [][FinalReturn
            => /\ num_requests = 0
               /\ outstanding_requests = 0
               /\ (nv_pc' = "done") = (DOMAIN unmatched_tiles = {})]_vars
    /\ <>Ended

\* The export aborted at its last assertion: nothing is outstanding and a
\* row holds a value tile without its meta tile.
C29_Witness ==
    /\ nv_pc = "aborted"
    /\ ~info_static
    /\ outstanding_requests = 0
    /\ \E e \in DOMAIN unmatched_tiles :
          /\ unmatched_tiles[e].tile # None
          /\ unmatched_tiles[e].meta_tile = None

\* The pairs a step adds to written.
Emitted == { written'[i] : i \in (Len(written) + 1)..Len(written') }

\* C30 (emission): a pair is emitted only for a row that holds a value tile
\* and a meta tile, both of that row, and the row leaves the holding map; after
\* an iteration of the process_events loop every entry of the holding map
\* has exactly one side.
C30_Emission ==
    /\ [](nv_pc = "process_events"
          => \A e \in DOMAIN unmatched_tiles :
                (unmatched_tiles[e].tile = None)
                    # (unmatched_tiles[e].meta_tile = None))
    /\ [][/\ Len(written') >= Len(written)
          /\ SubSeq(written', 1, Len(written)) = written
          /\ \A w \in Emitted :
                /\ entry_id_of(w.tile) = w.entry_id
                /\ entry_id_of(w.meta_tile) = w.entry_id
                /\ issued[w.tile.id].kind = "slot_tile"
                /\ issued[w.meta_tile.id].kind = "slot_meta_tile"
                /\ \/ w.tile \in Range(local_slot_tiles)
                   \/ /\ w.entry_id \in DOMAIN unmatched_tiles
                      /\ unmatched_tiles[w.entry_id].tile = Some(w.tile)
                /\ \/ w.meta_tile \in Range(slot_meta_tiles)
                   \/ /\ w.entry_id \in DOMAIN unmatched_tiles
                      /\ unmatched_tiles[w.entry_id].meta_tile = Some(w.meta_tile)
                /\ w.entry_id \notin DOMAIN unmatched_tiles'
          /\ \A e \in DOMAIN unmatched_tiles' :
                \A w \in Emitted : w.entry_id # e]_vars

\* A pair has been emitted while another row waits with one side only.
C30_Witness ==
    /\ nv_pc = "process_events"
    /\ Len(written) >= 1
    /\ \E e \in DOMAIN unmatched_tiles :
          /\ unmatched_tiles[e].tile = None
          /\ unmatched_tiles[e].meta_tile # None

\* The earliest level of tile_set whose ratio with a request of duration
\* d > 0 is minimal, the ratio of a level of size D being max(D, d) /
\* min(D, d).
LevelFor(d) ==
    CHOOSE i \in 1..Len(tile_set) :
        \A j \in 1..Len(tile_set) :
            LET Di == LevelSize(i)
                Dj == LevelSize(j)
            IN  \/ Max(Di, d) * Min(Dj, d) < Max(Dj, d) * Min(Di, d)
                \/ /\ Max(Di, d) * Min(Dj, d) = Max(Dj, d) * Min(Di, d)
                   /\ i <= j

\* The static result as a function of the request interval and the flag.
StaticTiles(r, f) ==
    IF r.stop - r.start <= 0 THEN << >>
    ELSE OverlappingTiles(
             tile_set[IF f THEN Len(tile_set) ELSE LevelFor(r.stop - r.start)],
             r)

\* C33 (static history independence): in static mode the list a call
\* returns, and the list last returned for either flag, is the function
\* StaticTiles of the request interval and the flag, whatever calls came
\* before, memo hits included.
C33_StaticHistoryIndependent ==
    (~Dynamic /\ ~aborted)
    => /\ Called => result = StaticTiles(LastRequest, full)
       /\ \A f \in BOOLEAN :
             returned[f] # None
             => returned[f][1].tiles = StaticTiles(returned[f][1].request, f)

\* A memo hit in static mode, as the last of at least three calls, on a
\* non-empty proper part of the chosen level.
C33_Witness ==
    /\ Called /\ ~Dynamic /\ path = "memo" /\ calls >= 3
    /\ last_request_interval[~full] # None
    /\ Len(result) >= 1
    /\ result = StaticTiles(LastRequest, full)
    /\ Len(result) < Len(tile_set[Len(tile_set)])

\* C35 (an empty request resets the dynamic cache): in dynamic mode, when
\* the slot of the call memoises an empty request interval, a call with a
\* non-empty request interval R returns [TileID(R)] and caches it.
C35_EmptyResets ==
    [][(/\ DynamicCall
        /\ last_request_interval[full'] # None
        /\ duration_ns(last_request_interval[full'][1]) <= 0
        /\ duration_ns(NewRequest) > 0)
       => (/\ result' = << NewRequest >>
           /\ tile_cache'[full'] = << NewRequest >>
           /\ last_request_interval'[full'] = Some(NewRequest)
           /\ path' = "fresh")]_vars

\* The second call on a dynamic slot had an empty request interval: the
\* slot, which cached the tile of the first call, is empty.
C35_Witness ==
    /\ Called /\ Dynamic /\ path = "empty" /\ calls = 2
    /\ last_request_interval[~full] = None
    /\ returned[full] # None
    /\ tile_cache[full] = << >>
    /\ calls < MaxCalls

\* tile overlaps r (half-open).
Overlapping(tile, r) == tile.start < r.stop /\ r.start < tile.stop

\* C36 (extension adds tiles only where the request reaches beyond the
\* envelope): a dynamic call that extends the cache leaves the cached tiles
\* in place between a tiles added before and b tiles added after; a = 0
\* when R.start >= E.start, b = 0 when R.stop <= E.stop, and every added
\* tile overlaps R.
C36_ExtensionSides ==
    [][(DynamicCall /\ path' = "extend")
       => \E a \in 0..Len(tile_cache'[full']) :
          \E b \in 0..Len(tile_cache'[full']) :
             /\ Len(tile_cache'[full']) = a + Len(PrevCache) + b
             /\ SubSeq(tile_cache'[full'], a + 1, a + Len(PrevCache))
                    = PrevCache
             /\ NewRequest.start >= Envelope(PrevCache).start => a = 0
             /\ NewRequest.stop <= Envelope(PrevCache).stop => b = 0
             /\ \A i \in (1..a) \cup
                         ((a + Len(PrevCache) + 1)..Len(tile_cache'[full'])) :
                   Overlapping(tile_cache'[full'][i], NewRequest)]_vars

\* An extension to the left only: the last of the three tiles does not
\* overlap the request, so it and nothing after it was cached, and the
\* request starts before the tile in the middle, so the first was added.
C36_Witness ==
    /\ Called /\ Dynamic /\ path = "extend" /\ Len(result) = 3
    /\ ~Overlapping(result[3], LastRequest)
    /\ Overlapping(result[1], LastRequest)
    /\ LastRequest.start < result[2].start
    /\ tile_cache[full] = result

\* The responses the completion callbacks pushed: every answered tile
\* request, and every answered info request that decoded.
Pushed ==
    { a \in answered :
        issued[a.id].kind = "info" => decode(a.response).ok }

\* How many times the response to request id is queued or returned.
Copies(id) ==
    Cardinality({ << k, i >> \in Kinds \X (1..MaxFetches) :
                    i <= Len(QueueOf(k)) /\ QueueOf(k)[i].id = id })
    + Cardinality({ r \in delivered : r.id = id })

\* A completion callback ran in this step.
CallbackRan == answered' # answered

\* C31 (drains are atomic snapshots), for the HTTP client, over every
\* interleaving of completion callbacks and get_* calls: every pushed
\* response is queued or returned exactly once, and nothing else is; a
\* callback appends its response to the queue of its kind and removes
\* nothing from any queue; a get_* returns exactly the content of its queue,
\* that is the responses pushed since the previous take, and empties it.
C31_AtomicDrains ==
    /\ [](source = "http"
          => /\ \A a \in Pushed : Copies(a.id) = 1
             /\ \A r \in Queued \cup delivered : \E a \in Pushed : a.id = r.id
             /\ responses_returned = Cardinality(delivered))
    /\ [][source = "http"
          => /\ CallbackRan
                => /\ delivered' = delivered
                   /\ \A k \in Kinds :
                         /\ Len(QueueOf(k)') >= Len(QueueOf(k))
                         /\ SubSeq(QueueOf(k)', 1, Len(QueueOf(k))) = QueueOf(k)
                   /\ \A a \in Pushed' \ Pushed :
                         LET k == issued[a.id].kind
                         IN  /\ Len(QueueOf(k)') = Len(QueueOf(k)) + 1
                             /\ QueueOf(k)'[Len(QueueOf(k)')].id = a.id
             /\ \A k \in Kinds :
                   Drained(k)
                   => /\ delivered' \ delivered = Range(QueueOf(k))
                      /\ QueueOf(k)' = << >>
                      /\ answered' = answered]_vars

\* With the HTTP client a get_* returned a response of a kind and a callback
\* then pushed another response onto the queue of the same kind.
C31_Witness ==
    /\ source = "http"
    /\ \E k \in TileKinds :
          /\ Len(QueueOf(k)) = 1
          /\ \E r \in delivered : issued[r.id].kind = k

\* The info response is drained: the export is past check_info.
InfoDrained == nv_pc \notin { "fetch_info", "check_info" }

\* The number of fetches of kind k issued so far.
Fetched(k) == Cardinality({ i \in 1..Len(issued) : issued[i].kind = k })

C38_PeakInFlight ==
    /\ [](outstanding_requests <= MAX_IN_FLIGHT_REQUESTS + 2)
    /\ [][(nv_pc = "process_events" /\ entry_index' = entry_index + 1)
          => /\ outstanding_requests' <= MAX_IN_FLIGHT_REQUESTS
             /\ num_requests = MAX_IN_FLIGHT_REQUESTS]_vars

\* The two fetches of a row were issued on top of MAX_IN_FLIGHT_REQUESTS
\* outstanding requests and process_events is about to drain.
C38_Witness ==
    /\ nv_pc = "process_events"
    /\ InIssueLoop
    /\ outstanding_requests = MAX_IN_FLIGHT_REQUESTS + 2

\* write_matched_tile has run for the item.
Written == events # None \/ write_aborted

\* The value fits in a u64.
FitsU64(x) == x \in 0..(U64Values - 1)

\* C32 (exported timestamps): an emitted time_start and time_stop are the
\* item's timestamps plus zero_time, and when such a sum does not fit in a
\* u64 the export aborts and emits nothing.
C32_ExportedTimestamps ==
    /\ events # None
       => /\ events[1].time_start = item_interval.start + zero_time
          /\ events[1].time_stop = item_interval.stop + zero_time
    /\ (Written /\ ~(FitsU64(item_interval.start + zero_time)
                      /\ FitsU64(item_interval.stop + zero_time)))
       => write_aborted /\ events = None

\* Two consecutive calls of request_tiles with the same full flag and
\* different views whose intersections with the row interval are equal.
SameClip ==
    /\ view # None
    /\ view' # None
    /\ calls' = calls + 1
    /\ full' = full
    /\ view'[1].interval # view[1].interval
    /\ intersection(view'[1].interval, interval)
       = intersection(view[1].interval, interval)

\* The step left the fields of the tile manager as they were.
StateKept ==
    /\ last_request_interval' = last_request_interval
    /\ tile_cache' = tile_cache
    /\ ~aborted'

\* C34 (the memo is keyed on the clipped interval, not on the view): the
\* second of two consecutive calls with the same full flag and different
\* views whose intersections with the row interval are equal is answered by
\* the memo: it returns the cached list, which is what the first returned,
\* and leaves last_request_interval and tile_cache as they were.
C34_MemoKeyedOnClip ==
    [][SameClip
       => /\ path' = "memo"
          /\ result' = tile_cache[full]
          /\ result' = result
          /\ StateKept]_vars

\* The second of two calls with different views and the same non-empty
\* clipped interval returned the cached tiles.
C34_Witness ==
    /\ view # None
    /\ view[1].changed
    /\ path = "memo"
    /\ calls = 2
    /\ result # << >>
    /\ last_request_interval[full] = Some(LastRequest)
    /\ last_request_interval[~full] = None

====
